---- MODULE Spec2Model ----
(***************************************************************************)
(* PyElla: splitting a full Spanish name into given name, first surname    *)
(* and second surname (src/PyElla/PyElla.py), and the CSV front end        *)
(* ParseNamesCSV that applies it to every row.                             *)
(*                                                                         *)
(* A Python unicode string is modelled as a sequence of one-character      *)
(* strings, so that split(), join(), lower() and the substring test `in`   *)
(* are computed on characters as Python computes them.                     *)
(***************************************************************************)
EXTENDS Integers, Sequences, FiniteSets, TLC

\* ------------------------------------------------------------------------
\* Bounds of the model
\* ------------------------------------------------------------------------

\* Largest number of words of an enumerated name.
MaxWords == 3

\* Largest number of words of an enumerated name with irregular whitespace.
MaxMessyWords == 2

\* Largest number of data rows of an enumerated CSV file.
MaxRows == 2

\* ------------------------------------------------------------------------
\* Characters and strings
\* ------------------------------------------------------------------------

\* The non-breaking space U+00A0, which unicode.split() treats as whitespace.
NBSP == "~"

SP == <<" ">>

EmptyStr == <<>>

s_Ana == <<"A", "n", "a">>
s_de == <<"d", "e">>
s_De == <<"D", "e">>
s_los == <<"l", "o", "s">>
s_Mar == <<"M", "a", "r">>
s_Paz == <<"P", "a", "z">>
s_del == <<"d", "e", "l">>
s_de_los == <<"d", "e", " ", "l", "o", "s">>
s_del_Mar == <<"d", "e", "l", " ", "M", "a", "r">>
s_de_Mar == <<"d", "e", " ", "M", "a", "r">>
s_Pilares == <<"P", "i", "l", "a", "r", "e", "s">>
s_Jesus == <<"J", "e", "s", "u", "s">>
s_Maria == <<"M", "a", "r", "i", "a">>
s_de_los_Olivos == <<"d", "e", " ", "l", "o", "s", " ", "O", "l", "i", "v", "o", "s">>
s_Benitez == <<"B", "e", "n", "i", "t", "e", "z">>
s_42 == <<"4", "2">>
s_Maria_de_los_Olivos_Benitez ==
    <<"M", "a", "r", "i", "a", " ", "d", "e", " ", "l", "o", "s", " ",
      "O", "l", "i", "v", "o", "s", " ", "B", "e", "n", "i", "t", "e", "z">>
s_Maria_de_Pilares_Benitez_Mendez_del_Pozo ==
    <<"M", "a", "r", "i", "a", " ", "d", "e", " ", "P", "i", "l", "a", "r", "e", "s", " ",
      "B", "e", "n", "i", "t", "e", "z", " ", "M", "e", "n", "d", "e", "z", " ",
      "d", "e", "l", " ", "P", "o", "z", "o">>
s_Maria_del_Mar_Batalla_Guerrero ==
    <<"M", "a", "r", "i", "a", " ", "d", "e", "l", " ", "M", "a", "r", " ",
      "B", "a", "t", "a", "l", "l", "a", " ", "G", "u", "e", "r", "r", "e", "r", "o">>
s_Maria_Jesus_Rodriguez_Mendez ==
    <<"M", "a", "r", "i", "a", " ", "J", "e", "s", "u", "s", " ",
      "R", "o", "d", "r", "i", "g", "u", "e", "z", " ", "M", "e", "n", "d", "e", "z">>
s_Ana_Paz_de == <<"A", "n", "a", " ", "P", "a", "z", " ", "d", "e">>
s_Ana_Mar == <<"A", "n", "a", " ", "M", "a", "r">>
s_Ana_Marin_Paz == <<"A", "n", "a", " ", "M", "a", "r", "i", "n", " ", "P", "a", "z">>
s_Ana_Paz_Mar_de_los_Marin ==
    <<"A", "n", "a", " ", "P", "a", "z", " ", "M", "a", "r", " ",
      "d", "e", " ", "l", "o", "s", " ", "M", "a", "r", "i", "n">>

\* unicode.isspace() on the characters of the model.
IsSpace(c) == c \in {" ", NBSP}

\* unicode.lower() on one character (the upper-case letters of the model).
LowerChar(c) ==
    CASE c = "A" -> "a" [] c = "B" -> "b" [] c = "D" -> "d" [] c = "G" -> "g"
      [] c = "J" -> "j" [] c = "M" -> "m" [] c = "O" -> "o" [] c = "P" -> "p"
      [] c = "R" -> "r" [] OTHER -> c

\* unicode.lower()
Lower(s) == IF s = <<>> THEN <<>> ELSE [i \in 1..Len(s) |-> LowerChar(s[i])]

\* list.reverse()
Reverse(s) == IF s = <<>> THEN <<>> ELSE [i \in 1..Len(s) |-> s[Len(s) + 1 - i]]

RECURSIVE SplitAcc(_, _, _, _)
SplitAcc(s, i, cur, acc) ==
    IF i > Len(s)
    THEN IF cur = <<>> THEN acc ELSE Append(acc, cur)
    ELSE IF IsSpace(s[i])
         THEN SplitAcc(s, i + 1, <<>>, IF cur = <<>> THEN acc ELSE Append(acc, cur))
         ELSE SplitAcc(s, i + 1, Append(cur, s[i]), acc)

\* unicode.split() with no argument: the maximal runs of non-whitespace.
Split(s) == SplitAcc(s, 1, <<>>, <<>>)

RECURSIVE Join(_, _)
\* sep.join(list)
Join(sep, list) ==
    IF list = <<>> THEN <<>>
    ELSE IF Len(list) = 1 THEN list[1]
    ELSE list[1] \o sep \o Join(sep, Tail(list))

\* The substring test `sub in s` of two unicode strings.
Contains(sub, s) ==
    \E k \in 0..(Len(s) - Len(sub)) : SubSeq(s, k + 1, k + Len(sub)) = sub

Range(f) == {f[i] : i \in DOMAIN f}

\* ------------------------------------------------------------------------
\* State
\* ------------------------------------------------------------------------

Threads == {1, 2}

VARIABLES
    compound_tokens,      \* PyElla.compound_tokens: the surname tokens, in file order
    compound_firstnames,  \* PyElla.compound_firstnames: the given name tokens
    firstname,            \* PyElla.firstname
    surname1,             \* PyElla.surname1
    surname2,             \* PyElla.surname2
    fullname,             \* PyElla.fullname
    pc,                   \* per caller: the line of parse_name it is at
    arg,                  \* per caller: the argument fullname of parse_name
    name_words,           \* per caller: local name_words of _create_components
    name_components,      \* per caller: local name_components / names_list
    idx,                  \* per caller: position of the running for loop
    grouped,              \* per caller: name_components as the backward scan left it
    ret,                  \* per caller: what parse_name returned or raised
    header,               \* the CSV file's header row
    rows,                 \* the CSV file's data rows (the cell holding the full name)
    name_column,          \* argument name_column of ParseNamesCSV
    name_col,             \* ParseNamesCSV.name_col
    fieldnames,           \* the fieldnames handed to the DictWriter
    cpc,                  \* position of the CSV program
    rowi,                 \* number of rows write_names has read
    out_header,           \* the header row written to the output file
    out                   \* the data rows written to the output file

pyella == <<compound_tokens, compound_firstnames, firstname, surname1, surname2, fullname>>
locals == <<pc, arg, name_words, name_components, idx, grouped, ret>>
csv == <<header, rows, name_column, name_col, fieldnames, cpc, rowi, out_header, out>>
vars == <<pyella, locals, csv>>

\* ------------------------------------------------------------------------
\* The token lists _load_tokens can leave in a parser (config/tokens.cfg)
\* ------------------------------------------------------------------------

TokenLists == { <<s_de, s_del, s_los>>, <<s_de_los, s_del>> }

FirstnameLists == { <<s_Mar, s_Paz>>, <<s_del_Mar, s_Pilares, s_de_Mar, s_Jesus>>, <<>> }

\* ------------------------------------------------------------------------
\* The names parsed
\* ------------------------------------------------------------------------

Vocabulary == {s_Ana, s_de, s_De, s_los, s_Mar, s_Paz}

WordSeqs(n) == UNION {[1..k -> Vocabulary] : k \in 0..n}

\* The ways the words of a name are separated in the input.
Spaced(ws) == Join(SP, ws)
NbspSpaced(ws) == Join(<<NBSP>>, ws)
Padded(ws) == SP \o Join(<<" ", " ">>, ws) \o <<NBSP>>

\* Names of the module doctest (lines 40-61), and names in which a given name
\* token is a proper substring of a word.
DoctestNames ==
    { s_Maria_de_los_Olivos_Benitez, s_Maria_de_Pilares_Benitez_Mendez_del_Pozo,
      s_Maria_del_Mar_Batalla_Guerrero, s_Maria_Jesus_Rodriguez_Mendez }

SubstringNames == { s_Ana_Marin_Paz, s_Ana_Paz_Mar_de_los_Marin }

Names ==
    {Spaced(ws) : ws \in WordSeqs(MaxWords)}
        \cup {NbspSpaced(ws) : ws \in WordSeqs(MaxMessyWords)}
        \cup {Padded(ws) : ws \in WordSeqs(MaxMessyWords)}
        \cup DoctestNames \cup SubstringNames

\* ------------------------------------------------------------------------
\* PyElla
\* ------------------------------------------------------------------------

NoResult == [raised |-> FALSE, value |-> <<EmptyStr, EmptyStr, EmptyStr>>]
IndexError == [raised |-> TRUE, value |-> <<EmptyStr, EmptyStr, EmptyStr>>]
Returned(f, s1, s2) == [raised |-> FALSE, value |-> <<f, s1, s2>>]

\* The test without lower(): a capitalised token word is not recognised.
IsSurnameTokenCaseSensitive(element) == element \in Range(compound_tokens)

\* The test against the words of the entries rather than the entries.
IsSurnameTokenAnyWord(element) ==
    \E i \in DOMAIN compound_tokens : Lower(element) \in Range(Split(compound_tokens[i]))

\* line 119: element.lower() in self.compound_tokens
IsSurnameToken(element) == Lower(element) \in Range(compound_tokens)

\* line 120: name_components[0] = u' '.join([element, name_components[0]])
SurnameMerge(element, comps) ==
    <<Join(SP, <<element, comps[1]>>)>> \o Tail(comps)

\* line 122: name_components.insert(0, element)
SurnameInsert(element, comps) == <<element>> \o comps

\* The test without the comparison of the word counts.
GivenNameMatchesContainsOnly(compound_firstname, comps) ==
    Contains(compound_firstname, comps[2])

\* line 135: the test of one given name token against the second component
GivenNameMatches(compound_firstname, comps) ==
    /\ Contains(compound_firstname, comps[2])
    /\ Len(Split(compound_firstname)) = Len(Split(comps[2]))

\* The join without the pop(1).
GivenNameMergeNoPop(comps) ==
    <<Join(SP, <<comps[1], comps[2]>>)>> \o Tail(comps)

\* lines 136-137: join the first two components, pop the second
GivenNameMerge(comps) ==
    <<Join(SP, <<comps[1], comps[2]>>)>> \o SubSeq(comps, 3, Len(comps))

\* The third component alone.
Surname2Third(names_list) == names_list[3]

\* line 153: u' '.join(names_list[2:])
Surname2Of(names_list) == Join(SP, SubSeq(names_list, 3, Len(names_list)))

\* The loop left at the first merge.
NextTokenBreak(i, merged) == IF merged THEN Len(compound_firstnames) + 1 ELSE i + 1

\* line 130: the for loop has no break; after the i-th token comes the next,
\* whether or not the i-th made a merge.
NextToken(i, merged) == i + 1

\* A field left as the call before set it.
KeepSurname2 == surname2

\* lines 91-93, one field each
ResetFirstname == EmptyStr
ResetSurname1 == EmptyStr
ResetSurname2 == EmptyStr

\* A caller enters parse_name(fullname).
Call(t, name) ==
    /\ pc[t] = "idle"
    /\ pc' = [pc EXCEPT ![t] = "L91"]
    /\ arg' = [arg EXCEPT ![t] = name]
    /\ UNCHANGED <<pyella, name_words, name_components, idx, grouped, ret>>

L91(t) ==
    /\ pc[t] = "L91"
    /\ firstname' = ResetFirstname
    /\ pc' = [pc EXCEPT ![t] = "L92"]
    /\ UNCHANGED <<compound_tokens, compound_firstnames, surname1, surname2, fullname,
                   arg, name_words, name_components, idx, grouped, ret, csv>>

L92(t) ==
    /\ pc[t] = "L92"
    /\ surname1' = ResetSurname1
    /\ pc' = [pc EXCEPT ![t] = "L93"]
    /\ UNCHANGED <<compound_tokens, compound_firstnames, firstname, surname2, fullname,
                   arg, name_words, name_components, idx, grouped, ret, csv>>

L93(t) ==
    /\ pc[t] = "L93"
    /\ surname2' = ResetSurname2
    /\ pc' = [pc EXCEPT ![t] = "L94"]
    /\ UNCHANGED <<compound_tokens, compound_firstnames, firstname, surname1, fullname,
                   arg, name_words, name_components, idx, grouped, ret, csv>>

L94(t) ==
    /\ pc[t] = "L94"
    /\ fullname' = arg[t]
    /\ pc' = [pc EXCEPT ![t] = "L98"]
    /\ UNCHANGED <<compound_tokens, compound_firstnames, firstname, surname1, surname2,
                   arg, name_words, name_components, idx, grouped, ret, csv>>

\* line 98: self.fullname = u' '.join(self.fullname.split())
L98(t) ==
    /\ pc[t] = "L98"
    /\ fullname' = Join(SP, Split(fullname))
    /\ pc' = [pc EXCEPT ![t] = "L114"]
    /\ UNCHANGED <<compound_tokens, compound_firstnames, firstname, surname1, surname2,
                   arg, name_words, name_components, idx, grouped, ret, csv>>

\* lines 114-117: split self.fullname, reverse the words, start with no component
L114(t) ==
    /\ pc[t] = "L114"
    /\ name_words' = [name_words EXCEPT ![t] = Reverse(Split(fullname))]
    /\ name_components' = [name_components EXCEPT ![t] = <<>>]
    /\ idx' = [idx EXCEPT ![t] = 1]
    /\ pc' = [pc EXCEPT ![t] = "L118"]
    /\ UNCHANGED <<pyella, arg, grouped, ret, csv>>

\* lines 118-122: one turn of the backward scan; a token met while there is no
\* component yet makes name_components[0] raise IndexError, which parse_name
\* does not catch.
L118(t) ==
    /\ pc[t] = "L118"
    /\ idx[t] <= Len(name_words[t])
    /\ LET element == name_words[t][idx[t]] IN
       IF IsSurnameToken(element)
       THEN IF name_components[t] = <<>>
            THEN /\ pc' = [pc EXCEPT ![t] = "raised"]
                 /\ ret' = [ret EXCEPT ![t] = IndexError]
                 /\ UNCHANGED <<name_components, idx>>
            ELSE /\ name_components' =
                        [name_components EXCEPT ![t] = SurnameMerge(element, @)]
                 /\ idx' = [idx EXCEPT ![t] = @ + 1]
                 /\ UNCHANGED <<pc, ret>>
       ELSE /\ name_components' =
                   [name_components EXCEPT ![t] = SurnameInsert(element, @)]
            /\ idx' = [idx EXCEPT ![t] = @ + 1]
            /\ UNCHANGED <<pc, ret>>
    /\ UNCHANGED <<pyella, arg, name_words, grouped, csv>>

\* line 125: the scan is over; name_words.reverse()
L125(t) ==
    /\ pc[t] = "L118"
    /\ idx[t] > Len(name_words[t])
    /\ name_words' = [name_words EXCEPT ![t] = Reverse(@)]
    /\ grouped' = [grouped EXCEPT ![t] = name_components[t]]
    /\ idx' = [idx EXCEPT ![t] = 1]
    /\ pc' = [pc EXCEPT ![t] = "L130"]
    /\ UNCHANGED <<pyella, arg, name_components, ret, csv>>

\* lines 130-137: one turn of the loop over the given name tokens
L130(t) ==
    /\ pc[t] = "L130"
    /\ idx[t] <= Len(compound_firstnames)
    /\ LET compound_firstname == compound_firstnames[idx[t]]
           merged == /\ Len(name_components[t]) > 1
                     /\ GivenNameMatches(compound_firstname, name_components[t])
       IN /\ IF merged
             THEN name_components' = [name_components EXCEPT ![t] = GivenNameMerge(@)]
             ELSE UNCHANGED name_components
          /\ idx' = [idx EXCEPT ![t] = NextToken(@, merged)]
    /\ UNCHANGED <<pyella, pc, arg, name_words, grouped, ret, csv>>

\* line 139 and line 101: the loop is over, the components go to _join_components
L139(t) ==
    /\ pc[t] = "L130"
    /\ idx[t] > Len(compound_firstnames)
    /\ pc' = [pc EXCEPT ![t] = "L148"]
    /\ UNCHANGED <<pyella, arg, name_words, name_components, idx, grouped, ret, csv>>

\* lines 148-149
L148(t) ==
    /\ pc[t] = "L148"
    /\ IF Len(name_components[t]) >= 1
       THEN /\ firstname' = name_components[t][1]
            /\ pc' = [pc EXCEPT ![t] = "L150"]
       ELSE /\ UNCHANGED firstname
            /\ pc' = [pc EXCEPT ![t] = "L103"]
    /\ UNCHANGED <<compound_tokens, compound_firstnames, surname1, surname2, fullname,
                   arg, name_words, name_components, idx, grouped, ret, csv>>

\* lines 150-151
L150(t) ==
    /\ pc[t] = "L150"
    /\ IF Len(name_components[t]) >= 2
       THEN surname1' = name_components[t][2]
       ELSE UNCHANGED surname1
    /\ pc' = [pc EXCEPT ![t] = "L152"]
    /\ UNCHANGED <<compound_tokens, compound_firstnames, firstname, surname2, fullname,
                   arg, name_words, name_components, idx, grouped, ret, csv>>

\* lines 152-153
L152(t) ==
    /\ pc[t] = "L152"
    /\ IF Len(name_components[t]) >= 3
       THEN surname2' = Surname2Of(name_components[t])
       ELSE UNCHANGED surname2
    /\ pc' = [pc EXCEPT ![t] = "L103"]
    /\ UNCHANGED <<compound_tokens, compound_firstnames, firstname, surname1, fullname,
                   arg, name_words, name_components, idx, grouped, ret, csv>>

\* line 103: return [self.firstname, self.surname1, self.surname2]
L103(t) ==
    /\ pc[t] = "L103"
    /\ ret' = [ret EXCEPT ![t] = Returned(firstname, surname1, surname2)]
    /\ pc' = [pc EXCEPT ![t] = "done"]
    /\ UNCHANGED <<pyella, arg, name_words, name_components, idx, grouped, csv>>

\* The body of parse_name, a line at a time.
parse_name(t) ==
    \/ L91(t) \/ L92(t) \/ L93(t) \/ L94(t) \/ L98(t)
    \/ L114(t) \/ L118(t) \/ L125(t) \/ L130(t) \/ L139(t)
    \/ L148(t) \/ L150(t) \/ L152(t) \/ L103(t)

\* ------------------------------------------------------------------------
\* parse_name as a function of its argument and the token lists: what a newly
\* constructed parser returns for a name
\* ------------------------------------------------------------------------

RECURSIVE SurnameScan(_, _)
\* lines 116-122, on the reversed words still to visit
SurnameScan(rev, comps) ==
    IF rev = <<>> THEN [raised |-> FALSE, comps |-> comps]
    ELSE IF IsSurnameToken(Head(rev))
         THEN IF comps = <<>>
              THEN [raised |-> TRUE, comps |-> <<>>]
              ELSE SurnameScan(Tail(rev), SurnameMerge(Head(rev), comps))
         ELSE SurnameScan(Tail(rev), SurnameInsert(Head(rev), comps))

RECURSIVE GivenNameScan(_, _)
\* lines 130-137, from the i-th given name token on
GivenNameScan(comps, i) ==
    IF i > Len(compound_firstnames) THEN comps
    ELSE IF Len(comps) > 1 /\ GivenNameMatches(compound_firstnames[i], comps)
         THEN GivenNameScan(GivenNameMerge(comps), i + 1)
         ELSE GivenNameScan(comps, i + 1)

\* lines 141-153 on a parser whose three fields are empty
JoinFresh(names_list) ==
    << IF Len(names_list) >= 1 THEN names_list[1] ELSE EmptyStr,
       IF Len(names_list) >= 2 THEN names_list[2] ELSE EmptyStr,
       IF Len(names_list) >= 3 THEN Surname2Of(names_list) ELSE EmptyStr >>

\* PyElla().parse_name(name)
FreshParse(name) ==
    LET scan == SurnameScan(Reverse(Split(Join(SP, Split(name)))), <<>>) IN
    IF scan.raised THEN IndexError
    ELSE LET triple == JoinFresh(GivenNameScan(scan.comps, 1)) IN
         Returned(triple[1], triple[2], triple[3])

\* ------------------------------------------------------------------------
\* One parser, one call: PyElla().parse_name(name)
\* ------------------------------------------------------------------------

NoColumn == "None"

InitParser ==
    /\ compound_tokens \in TokenLists
    /\ compound_firstnames \in FirstnameLists
    /\ firstname = EmptyStr
    /\ surname1 = EmptyStr
    /\ surname2 = EmptyStr
    /\ fullname = EmptyStr

InitLocals(callers) ==
    /\ pc = [t \in Threads |-> IF t \in callers THEN "idle" ELSE "off"]
    /\ arg = [t \in Threads |-> EmptyStr]
    /\ name_words = [t \in Threads |-> <<>>]
    /\ name_components = [t \in Threads |-> <<>>]
    /\ idx = [t \in Threads |-> 1]
    /\ grouped = [t \in Threads |-> <<>>]
    /\ ret = [t \in Threads |-> NoResult]

NoCSV ==
    /\ header = <<>>
    /\ rows = <<>>
    /\ name_column = NoColumn
    /\ name_col = NoColumn
    /\ fieldnames = <<>>
    /\ cpc = "off"
    /\ rowi = 0
    /\ out_header = <<>>
    /\ out = <<>>

Init == InitParser /\ InitLocals({1}) /\ NoCSV

Next ==
    \/ \E name \in Names : Call(1, name) /\ UNCHANGED csv
    \/ parse_name(1)

Spec == Init /\ [][Next]_vars

\* ------------------------------------------------------------------------
\* One parser shared by two callers whose parse_name calls interleave
\* ------------------------------------------------------------------------

ParNames == { s_Ana_Mar, s_Maria_de_los_Olivos_Benitez, s_Ana_Paz_de }

InitPar == InitParser /\ InitLocals(Threads) /\ NoCSV

NextPar ==
    \E t \in Threads :
        \/ \E name \in ParNames : Call(t, name) /\ UNCHANGED csv
        \/ parse_name(t)

SpecPar == InitPar /\ [][NextPar]_vars

\* ------------------------------------------------------------------------
\* ParseNamesCSV
\* ------------------------------------------------------------------------

Headers == { <<"Name", "Edad">>, <<"Edad", "Nombre">>, <<"Nombre", "Name">>, <<"Edad">> }

ColumnArgs == { NoColumn, "Nombre", "Full" }

RowNames == { s_Ana_Paz_Mar_de_los_Marin, s_Ana_Mar, s_Ana_Paz_de }

RowSeqs == UNION {[1..n -> RowNames] : n \in 0..MaxRows}

\* list.index(x), 1-based here; 0 stands for ValueError
IndexOf(list, x) ==
    IF x \in Range(list) THEN CHOOSE i \in DOMAIN list : list[i] = x /\ \A j \in 1..(i - 1) : list[j] # x
    ELSE 0

\* The cell of a data row under a column: the full name under a name column,
\* an age under any other.
Cell(row, column) == IF column \in {"Name", "Nombre"} THEN row ELSE s_42

\* lines 241-250: the column name recorded when name_column is None and the
\* header holds "Name" or "Nombre"; line 250 runs after either match.
DetectedNameCol(fields) == "Name"

\* lines 253-257: the name column replaced by the three output columns
OutputFields(fields, i) ==
    SubSeq(fields, 1, i - 1) \o <<"Given Name", "First Surname", "Second Surname">>
        \o SubSeq(fields, i + 1, Len(fields))

\* lines 230-260 of ParseNamesCSV.__init__
CSVConstruct ==
    /\ cpc = "new"
    /\ LET wanted == IF name_column # NoColumn THEN name_column
                      ELSE IF "Name" \in Range(header) THEN "Name" ELSE "Nombre"
           name_col_index == IndexOf(header, wanted)
       IN IF name_col_index = 0
          THEN /\ cpc' = "exited"
               /\ UNCHANGED <<name_col, fieldnames>>
          ELSE /\ name_col' = IF name_column # NoColumn THEN name_column
                                ELSE DetectedNameCol(header)
               /\ fieldnames' = OutputFields(header, name_col_index)
               /\ cpc' = "constructed"
    /\ UNCHANGED <<pyella, locals, header, rows, name_column, rowi, out_header, out>>

\* lines 263-264: writeheader()
WriteHeader ==
    /\ cpc = "constructed"
    /\ out_header' = fieldnames
    /\ cpc' = "loop"
    /\ UNCHANGED <<pyella, locals, header, rows, name_column, name_col, fieldnames, rowi, out>>

\* lines 265-266: the next row is read and row[self.name_col] handed to parse_name;
\* a name_col that is no key of the row raises KeyError.
ReadRow ==
    /\ cpc = "loop"
    /\ pc[1] = "idle"
    /\ rowi < Len(rows)
    /\ IF name_col \in Range(header)
       THEN /\ Call(1, Cell(rows[rowi + 1], name_col))
            /\ rowi' = rowi + 1
            /\ UNCHANGED cpc
       ELSE /\ cpc' = "KeyError"
            /\ UNCHANGED <<pyella, locals, rowi>>
    /\ UNCHANGED <<header, rows, name_column, name_col, fieldnames, out_header, out>>

\* lines 267-272: the returned components are written under the three new
\* columns, every other column keeps the row's cell.
OutputRow(row, name_components_) ==
    [i \in 1..Len(fieldnames) |->
        CASE fieldnames[i] = "Given Name" -> name_components_[1]
          [] fieldnames[i] = "First Surname" -> name_components_[2]
          [] fieldnames[i] = "Second Surname" -> name_components_[3]
          [] OTHER -> Cell(row, fieldnames[i])]

WriteRow ==
    /\ cpc = "loop"
    /\ pc[1] = "done"
    /\ out' = Append(out, OutputRow(rows[rowi], ret[1].value))
    /\ pc' = [pc EXCEPT ![1] = "idle"]
    /\ UNCHANGED <<pyella, arg, name_words, name_components, idx, grouped, ret,
                   header, rows, name_column, name_col, fieldnames, cpc, rowi, out_header>>

\* parse_name raised: write_names catches nothing and the run ends.
Propagate ==
    /\ cpc = "loop"
    /\ pc[1] = "raised"
    /\ cpc' = "IndexError"
    /\ UNCHANGED <<pyella, locals, header, rows, name_column, name_col, fieldnames,
                   rowi, out_header, out>>

\* line 265: no row is left.
EndLoop ==
    /\ cpc = "loop"
    /\ pc[1] = "idle"
    /\ rowi = Len(rows)
    /\ cpc' = "finished"
    /\ UNCHANGED <<pyella, locals, header, rows, name_column, name_col, fieldnames,
                   rowi, out_header, out>>

InitCSV ==
    /\ InitParser
    /\ InitLocals({1})
    /\ header \in Headers
    /\ rows \in RowSeqs
    /\ name_column \in ColumnArgs
    /\ name_col = NoColumn
    /\ fieldnames = <<>>
    /\ cpc = "new"
    /\ rowi = 0
    /\ out_header = <<>>
    /\ out = <<>>

NextCSV ==
    \/ CSVConstruct
    \/ WriteHeader
    \/ ReadRow
    \/ parse_name(1)
    \/ WriteRow
    \/ Propagate
    \/ EndLoop

SpecCSV == InitCSV /\ [][NextCSV]_vars

\* ------------------------------------------------------------------------
\* Vocabulary of the properties
\* ------------------------------------------------------------------------

RECURSIVE WordsOf(_)
\* The words of a list of strings, in order.
WordsOf(list) == IF list = <<>> THEN <<>> ELSE Split(Head(list)) \o WordsOf(Tail(list))

\* A word that, in lower case, is an entry of the surname token list.
IsConnectorWord(w) == \E i \in DOMAIN compound_tokens : compound_tokens[i] = Lower(w)

\* A given name token is contained in a component and has as many words as it.
TokenFits(token, component) ==
    /\ \E k \in 0..(Len(component) - Len(token)) :
            \A j \in 1..Len(token) : component[k + j] = token[j]
    /\ Len(Split(token)) = Len(Split(component))

\* The first two of a list of components made one, by a single space.
FirstTwoMerged(comps) ==
    <<comps[1] \o SP \o comps[2]>> \o [j \in 1..(Len(comps) - 2) |-> comps[j + 2]]

\* parse_name has come back to its caller, with a value or an exception.
Finished(t) == pc[t] \in {"done", "raised"}

\* ------------------------------------------------------------------------
\* C1: parse_name never fails: whatever the name and the token lists, it
\* returns a triple and raises no error.
\* ------------------------------------------------------------------------
C1_ParseNameNeverRaises ==
    \A t \in Threads : pc[t] # "raised" /\ ~ret[t].raised

\* ------------------------------------------------------------------------
\* C2: when parse_name returns, the words of the given name, of surname1 and
\* of surname2, in that order, are exactly the words of the input: none lost,
\* none duplicated, none moved.
\* ------------------------------------------------------------------------
C2_NoWordLostOrDuplicated ==
    pc[1] = "done" =>
        WordsOf(ret[1].value) = Split(arg[1])

C2_Witness ==
    /\ pc[1] = "done"
    /\ \A k \in 1..3 : ret[1].value[k] # EmptyStr
    /\ Len(Split(ret[1].value[1])) > 1
    /\ Len(Split(ret[1].value[3])) > 1
    /\ Len(grouped[1]) > Len(name_components[1])

\* ------------------------------------------------------------------------
\* C6: _join_components maps the components by position: element 0 is the
\* given name, element 1 is surname1, the elements from index 2 on, joined by
\* single spaces, are surname2; nothing is dropped.
\* ------------------------------------------------------------------------
C6_AssemblyByPosition ==
    pc[1] = "L103" =>
        LET list == name_components[1]
            n == Len(list)
        IN /\ firstname = IF n >= 1 THEN list[1] ELSE EmptyStr
           /\ surname1 = IF n >= 2 THEN list[2] ELSE EmptyStr
           /\ surname2 = Join(SP, [j \in 1..(IF n >= 2 THEN n - 2 ELSE 0) |-> list[j + 2]])
           /\ (n <= 1 => surname1 = EmptyStr /\ surname2 = EmptyStr)
           /\ (n = 2 => surname2 = EmptyStr)
           /\ WordsOf(<<firstname, surname1, surname2>>) = WordsOf(list)

C6_Witness ==
    /\ pc[1] = "L103"
    /\ Len(name_components[1]) > 3
    /\ Len(Split(surname2)) > Len(Split(name_components[1][3]))

RECURSIVE TokensApplied(_, _, _)
\* The components after the tokens i..n were each tried once, in list order,
\* against the second component as it was when the token's turn came.
TokensApplied(comps, i, n) ==
    IF i > n THEN comps
    ELSE IF Len(comps) > 1 /\ TokenFits(compound_firstnames[i], comps[2])
         THEN TokensApplied(FirstTwoMerged(comps), i + 1, n)
         ELSE TokensApplied(comps, i + 1, n)

C8_ConnectorsAttachToFollower ==
    LET words == IF pc[1] = "raised" THEN Split(arg[1]) ELSE name_words[1]
        lastFree == words # <<>> => ~IsConnectorWord(words[Len(words)])
    IN /\ (pc[1] = "raised" => ~lastFree)
       /\ (pc[1] = "L130" /\ idx[1] = 1 /\ lastFree) =>
            /\ \A e \in DOMAIN name_components[1] :
                  LET ws == Split(name_components[1][e]) IN
                  /\ Len(ws) >= 1
                  /\ \A j \in 1..(Len(ws) - 1) : IsConnectorWord(ws[j])
                  /\ ~IsConnectorWord(ws[Len(ws)])
            /\ Len(name_components[1]) =
                  Cardinality({i \in DOMAIN words : ~IsConnectorWord(words[i])})
            /\ Len(name_components[1]) <= Len(words)

C8_Witness ==
    /\ pc[1] = "L130"
    /\ idx[1] = 1
    /\ \E e \in DOMAIN name_components[1] :
          /\ Len(Split(name_components[1][e])) >= 3
          /\ Split(name_components[1][e])[1] # Lower(Split(name_components[1][e])[1])

\* ------------------------------------------------------------------------
\* C9: the given name grouping changes the components only when they are at
\* least two and some given name token is contained in the second one and has
\* exactly as many words; then the first two are merged. Otherwise the
\* components come back unchanged.
\* ------------------------------------------------------------------------
C9_MergeOnlyOnFit ==
    pc[1] = "L148" =>
        LET before == grouped[1]
            after == name_components[1]
            fits == /\ Len(before) >= 2
                    /\ \E i \in DOMAIN compound_firstnames :
                          TokenFits(compound_firstnames[i], before[2])
        IN /\ ~fits => after = before
           /\ fits => /\ Len(after) < Len(before)
                      /\ SubSeq(after[1], 1, Len(before[1]) + 1 + Len(before[2]))
                            = before[1] \o SP \o before[2]

C9_Witness ==
    /\ pc[1] = "L148"
    /\ Len(grouped[1]) >= 2
    /\ \E i \in DOMAIN compound_firstnames :
          /\ Contains(compound_firstnames[i], grouped[1][2])
          /\ Len(Split(compound_firstnames[i])) < Len(Split(grouped[1][2]))
    /\ name_components[1] = grouped[1]

\* ------------------------------------------------------------------------
\* C3 as stated: with "de los" an entry of the surname tokens,
\* parse_name("Maria de los Olivos Benitez") is
\* ("Maria", "de los Olivos", "Benitez").
\* ------------------------------------------------------------------------
C3_MultiWordEntryHonoured ==
    ( /\ pc[1] = "done"
      /\ arg[1] = s_Maria_de_los_Olivos_Benitez
      /\ s_de_los \in Range(compound_tokens) )
    => ret[1] = Returned(s_Maria, s_de_los_Olivos, s_Benitez)

RECURSIVE WordCount(_, _)
\* The number of words of the first k elements of a list of components.
WordCount(comps, k) ==
    IF k = 0 THEN 0 ELSE WordCount(comps, k - 1) + Len(Split(comps[k]))

\* C3 as amended: a surname token is honoured one word at a time. With "de"
\* and "los" each an entry (and no given name token fitting "de los Olivos"),
\* parse_name("Maria de los Olivos Benitez") is
\* ("Maria", "de los Olivos", "Benitez"); in general the backward scan fuses a
\* word with the word after it exactly when the word itself, in lower case,
\* is an entry, so the words of a multi-word entry are fused with the word W
\* after them only if each of them is an entry on its own.
C3_SingleWordEntriesFuse ==
    /\ ( /\ pc[1] = "done"
         /\ arg[1] = s_Maria_de_los_Olivos_Benitez
         /\ {s_de, s_los} \subseteq Range(compound_tokens)
         /\ \A i \in DOMAIN compound_firstnames :
               ~TokenFits(compound_firstnames[i], s_de_los_Olivos) )
       => ret[1] = Returned(s_Maria, s_de_los_Olivos, s_Benitez)
    /\ (pc[1] = "L130" /\ idx[1] = 1) =>
         LET words == name_words[1]
             comps == name_components[1]
             ends == {WordCount(comps, k) : k \in DOMAIN comps}
         IN /\ WordsOf(comps) = words
            /\ \A i \in 1..(Len(words) - 1) :
                  (i \notin ends) <=> (Lower(words[i]) \in Range(compound_tokens))

C3_Witness ==
    /\ pc[1] = "done"
    /\ arg[1] = s_Maria_de_los_Olivos_Benitez
    /\ {s_de, s_los} \subseteq Range(compound_tokens)
    /\ ret[1] = Returned(s_Maria, s_de_los_Olivos, s_Benitez)

\* ------------------------------------------------------------------------
\* C4: two parse_name calls on different names, interleaved on one shared
\* parser, each return the triple they return when run alone.
\* ------------------------------------------------------------------------
C4_InterleavedAsAlone ==
    \A t \in Threads : Finished(t) => ret[t] = FreshParse(arg[t])

\* ------------------------------------------------------------------------
\* C5: with no explicit name_column, the column write_names reads is the
\* header that matched, "Name" if the header row holds it and otherwise
\* "Nombre", and no row fails for a missing column.
\* ------------------------------------------------------------------------
C5_DetectedColumnIsTheMatch ==
    ( /\ name_column = NoColumn
      /\ cpc \in {"constructed", "loop", "finished", "KeyError", "IndexError"} ) =>
        /\ name_col = IF "Name" \in Range(header) THEN "Name" ELSE "Nombre"
        /\ cpc # "KeyError"

\* ------------------------------------------------------------------------
\* C10: one parser used for row after row is history-independent: whatever
\* was parsed before, parse_name returns (or raises) what a newly constructed
\* parser with the same token lists does for that name, every row written
\* holds that triple, and no step changes the token lists.
\* ------------------------------------------------------------------------
C10_ReuseIsHistoryIndependent ==
    /\ [](/\ Finished(1) => ret[1] = FreshParse(arg[1])
          /\ \A i \in DOMAIN out :
                out[i] = OutputRow(rows[i], FreshParse(Cell(rows[i], name_col)).value))
    /\ [][UNCHANGED <<compound_tokens, compound_firstnames>>]_vars

C10_Witness ==
    /\ cpc = "loop"
    /\ pc[1] = "done"
    /\ rowi >= 2
    /\ Len(out) = rowi - 1
    /\ FreshParse(rows[rowi - 1]).value[3] # EmptyStr
    /\ ret[1].value[3] = EmptyStr

====
